---- MODULE Spec2Model ----
(***************************************************************************)
(* Model of src/src/App.jsx: the App component's state, its event          *)
(* handlers (handleDrop, handleFileChange, handleFile, handleReset,        *)
(* copyToClipboard) and the asynchronous generateAltText call with its     *)
(* retry / exponential-backoff loop around fetch.                          *)
(*                                                                         *)
(* Every upload starts one FileReader and, when the read ends, one         *)
(* generateAltText call.  A call is a record; its field pc is the await    *)
(* at which the async function is suspended.  The fields inflight, timers, *)
(* sent, ncalls, waits, nFail, kinds, msgs, body, error and altSet are     *)
(* history variables: the code does not hold them, they record what the    *)
(* call has done (network calls issued and pending, timers started and     *)
(* pending, how many attempts failed and in which ways, what the call has  *)
(* passed to setMessage and setAltText).                                   *)
(*                                                                         *)
(* The body of a response is read by response.json(), after fetch has      *)
(* resolved on the status, so it is chosen when json() settles.            *)
(* isDragging only styles the drop area and is read by no handler; it is   *)
(* left out.                                                               *)
(***************************************************************************)
EXTENDS Integers, Sequences, FiniteSets

\* Number of files the user uploads in one run (each starts one call).
MaxUploads == 2

\* src/src/App.jsx:107  let delay = 1000;
baseDelay == 1000
\* src/src/App.jsx:108  const maxRetries = 5;
maxRetries == 5

VARIABLES
    image,      \* useState(null): the data URL shown as preview, or NoImage
    altText,    \* useState(''): the generated alt text
    isLoading,  \* useState(false)
    message,    \* useState('')
    nUploads,   \* number of files handed to handleFile so far
    call        \* call[c]: the FileReader and generateAltText call of upload c

vars == <<image, altText, isLoading, message, nUploads, call>>

Null == "null"
\* image === null: no preview
NoImage == << >>
\* let response = null; a response object is held as its status.
NoResponse == 0
NoFile == [type |-> Null, data |-> Null]
NoPayload == [mimeType |-> Null, data |-> Null]
CallIds == 1..MaxUploads

\* The files the user can pick: an image, and an empty file that is no image
\* (data is the file's content in base64).
Files ==
    { [type |-> "image/png",  data |-> "QUJD"],
      [type |-> "text/plain", data |-> ""] }

\* file.type.startsWith('image/')
IsImageType(t) == t \in {"image/png"}

\* reader.readAsDataURL(file): "data:<type>;base64,<data>", held as the two
\* parts that the comma separates (neither part contains a comma).
DataURL(f) == << "data:" \o f.type \o ";base64", f.data >>
\* reader.result.split(',')[1]
Base64Of(url) == url[2]

\* HTTP statuses the endpoint answers with.
Statuses == {200, 429, 500}
\* response.ok
Ok(status) == status \in 200..299

\* What response.json() yields as result?.candidates?.[0]?.content?.parts?.[0]?.text:
\* a text, the empty text, or nothing (the path is missing).
Missing == "undefined"
Texts == {"A red barn", ""}
Bodies == Texts \cup {Missing}
\* (mutant) only a missing text counts as no description
TruthyUnlessMissing(t) == t # Missing

\* if (generatedText)
Truthy(t) == t # Missing /\ t # ""

MsgDropInvalid == "Please drop a valid image file."
MsgReadError == "Error reading file. Please try again."
MsgAnalyzing == "Analyzing image..."
MsgSuccess == "Alt text generated successfully!"
MsgNoDescription == "Could not generate alt text. Please try a different image."
MsgError == "An error occurred. Please check the console for details."
MsgCopied == "Alt text copied to clipboard!"

\* The errors generateAltText's outer catch can receive.
ErrApi == "API error"
ErrTransport == "TypeError: Failed to fetch"
ErrNoResponse == "Failed to fetch from API after multiple retries."
ErrJson == "SyntaxError: bad JSON"

\* A call before its upload.
IdleCall ==
    [ pc |-> "idle", file |-> NoFile, base64Data |-> Null, mimeType |-> Null,
      sent |-> NoPayload,
      response |-> NoResponse, delay |-> 0, retries |-> 0,
      inflight |-> 0, timers |-> 0,
      ncalls |-> 0, waits |-> << >>, nFail |-> 0, kinds |-> {},
      body |-> Null, error |-> Null, msgs |-> << >>, altSet |-> Null ]

Init ==
    /\ image = NoImage
    /\ altText = ""
    /\ isLoading = FALSE
    /\ message = ""
    /\ nUploads = 0
    /\ call = [c \in CallIds |-> IdleCall]

----------------------------------------------------------------------------
(* generateAltText: the pieces of its control flow, as functions of the    *)
(* call record r.                                                          *)

\* (mutant) the inner catch reports each failed attempt to the user
SetTimeoutReporting(r) ==
    [r EXCEPT !.timers = @ + 1, !.waits = Append(@, r.delay),
              !.msgs = IF r.pc = "backoffErr" THEN Append(@, MsgError) ELSE @]

\* setTimeout(resolve, delay): a timer of the current delay is started.
SetTimeout(r) == [r EXCEPT !.timers = @ + 1, !.waits = Append(@, r.delay)]

\* (mutant) linear instead of exponential backoff
NextDelayLinear(d) == d + baseDelay

\* delay *= 2
NextDelay(d) == d * 2

\* fetch(apiUrl, {method: 'POST', ..., body: JSON.stringify(payload)}) is
\* issued; the function is suspended until it settles.
IssueFetch(r) ==
    [r EXCEPT !.pc = "fetching", !.inflight = @ + 1, !.ncalls = @ + 1,
              !.sent = [mimeType |-> r.mimeType, data |-> r.base64Data]]

\* The outer catch and finally: the error is logged and the error message set.
Caught(r, e) ==
    [r EXCEPT !.pc = "done", !.error = e, !.msgs = Append(@, MsgError)]

\* After the loop: if (!response) throw ...; else response.json() is awaited.
AfterLoop(r) ==
    IF r.response = NoResponse THEN Caught(r, ErrNoResponse)
    ELSE [r EXCEPT !.pc = "parsing"]

\* while (retries < maxRetries)
LoopTest(r) == r.retries < maxRetries

\* The head of the retry loop: another fetch, or the loop is left.
Loop(r) == IF LoopTest(r) THEN IssueFetch(r) ELSE AfterLoop(r)

\* (mutant) the backoff promise is created but not awaited
RateLimitedNoAwait(r) ==
    LET r1 == [r EXCEPT !.timers = @ + 1, !.waits = Append(@, r.delay),
                        !.delay = @ * 2, !.retries = @ + 1]
    IN  IF r1.retries < maxRetries
        THEN [r1 EXCEPT !.pc = "fetching", !.inflight = @ + 1, !.ncalls = @ + 1]
        ELSE [r1 EXCEPT !.pc = "parsing"]

\* if (response.status === 429): the backoff timer is started and awaited.
RateLimited(r) == SetTimeout([r EXCEPT !.pc = "backoff429"])

\* (mutant) a 429 does not count against the attempt budget
AfterBackoff429Uncounted(r) == Loop([r EXCEPT !.delay = NextDelay(@)])

\* The 429 timer has fired: delay *= 2; retries++; continue.
AfterBackoff429(r) ==
    Loop([r EXCEPT !.delay = NextDelay(@), !.retries = @ + 1])

\* (mutant) the budget test of the inner catch is off by one
InnerCatchOffByOne(r, e) ==
    LET r1 == [r EXCEPT !.retries = @ + 1]
    IN  IF r1.retries > maxRetries THEN [r1 EXCEPT !.pc = "done", !.error = e,
                                                   !.msgs = Append(@, MsgError)]
        ELSE [r1 EXCEPT !.pc = "backoffErr", !.timers = @ + 1,
                        !.waits = Append(@, r.delay)]

\* (mutant) the inner catch never rethrows: it waits and lets the loop end
InnerCatchNoRethrow(r, e) ==
    SetTimeout([r EXCEPT !.retries = @ + 1, !.pc = "backoffErr"])

\* The inner catch: retries++; rethrow when the budget is used up, else the
\* backoff timer is started and awaited.
InnerCatch(r, e) ==
    LET r1 == [r EXCEPT !.retries = @ + 1]
    IN  IF r1.retries >= maxRetries THEN Caught(r1, e)
        ELSE SetTimeout([r1 EXCEPT !.pc = "backoffErr"])

\* (mutant) the inner catch's wait is not followed by the doubling
AfterBackoffErrSameDelay(r) ==
    IF r.retries < maxRetries
    THEN [r EXCEPT !.pc = "fetching", !.inflight = @ + 1, !.ncalls = @ + 1,
                   !.sent = [mimeType |-> r.mimeType, data |-> r.base64Data]]
    ELSE [r EXCEPT !.pc = "parsing"]

\* The inner catch's timer has fired: delay *= 2; the loop goes round.
AfterBackoffErr(r) == Loop([r EXCEPT !.delay = NextDelay(@)])

\* fetch resolved with a response of the given status.
OnResponse(r, status) ==
    LET r1 == [r EXCEPT !.response = status, !.inflight = @ - 1]
    IN  IF status = 429 THEN RateLimited(r1)
        ELSE IF ~Ok(status) THEN InnerCatch(r1, ErrApi)
        ELSE AfterLoop(r1)

\* (mutant) a transport error is not retried
OnRejectFatal(r) ==
    [r EXCEPT !.inflight = @ - 1, !.retries = @ + 1, !.pc = "done",
              !.error = ErrTransport, !.msgs = Append(@, MsgError)]

\* fetch rejected (transport error); response keeps its previous value.
OnReject(r) == InnerCatch([r EXCEPT !.inflight = @ - 1], ErrTransport)

\* response.json() resolved; generatedText is b.
OnJson(r, b) ==
    IF Truthy(b)
    THEN [r EXCEPT !.pc = "done", !.body = b, !.altSet = b,
                   !.msgs = Append(@, MsgSuccess)]
    ELSE [r EXCEPT !.pc = "done", !.body = b,
                   !.msgs = Append(@, MsgNoDescription)]

\* response.json() rejected (the body is not JSON, or the stream broke).
OnJsonReject(r) == Caught(r, ErrJson)

\* (mutant) an empty payload is refused before any network call
StartCallValidating(r, base64Data, mimeType) ==
    LET r1 == [r EXCEPT !.base64Data = base64Data, !.mimeType = mimeType,
                        !.response = NoResponse, !.delay = baseDelay,
                        !.retries = 0, !.msgs = <<MsgAnalyzing>>]
    IN  IF base64Data = "" THEN Caught(r1, "Error: empty image") ELSE Loop(r1)

\* generateAltText(base64Data, mimeType) up to its first await.
StartCall(r, base64Data, mimeType) ==
    Loop([r EXCEPT !.base64Data = base64Data, !.mimeType = mimeType,
                   !.response = NoResponse, !.delay = baseDelay, !.retries = 0,
                   !.msgs = <<MsgAnalyzing>>])

\* (mutant) setIsLoading(false) at the end of the try block, not in a finally
ContinueNoFinally(c, r2) ==
    /\ call' = [call EXCEPT ![c] = r2]
    /\ message' = IF r2.msgs # call[c].msgs THEN r2.msgs[Len(r2.msgs)] ELSE message
    /\ altText' = IF r2.altSet # call[c].altSet THEN r2.altSet ELSE altText
    /\ isLoading' = IF r2.pc = "done" /\ r2.error = Null THEN FALSE ELSE isLoading
    /\ UNCHANGED <<image, nUploads>>

\* A step of call c that takes its record to r2: what it passed to setMessage
\* and setAltText takes effect, and when the call ends so does the finally's
\* setIsLoading(false).
Continue(c, r2) ==
    /\ call' = [call EXCEPT ![c] = r2]
    /\ message' = IF r2.msgs # call[c].msgs THEN r2.msgs[Len(r2.msgs)] ELSE message
    /\ altText' = IF r2.altSet # call[c].altSet THEN r2.altSet ELSE altText
    /\ isLoading' = IF r2.pc = "done" THEN FALSE ELSE isLoading
    /\ UNCHANGED <<image, nUploads>>

----------------------------------------------------------------------------
(* Event handlers *)

\* handleFile(file): the outputs are cleared and a FileReader is started.
HandleFile(f) ==
    /\ nUploads < MaxUploads
    /\ nUploads' = nUploads + 1
    /\ altText' = ""
    /\ message' = ""
    /\ call' = [call EXCEPT ![nUploads + 1] = [@ EXCEPT !.pc = "reading", !.file = f]]
    /\ UNCHANGED <<image, isLoading>>

\* handleDrop: a dropped file that is no image is refused with a message.
HandleDrop(f) ==
    IF ~IsImageType(f.type)
    THEN /\ message' = MsgDropInvalid
         /\ UNCHANGED <<image, altText, isLoading, nUploads, call>>
    ELSE HandleFile(f)

\* handleFileChange: the file input hands any chosen file to handleFile.
HandleFileChange(f) == HandleFile(f)

\* (mutant) retries and delay are declared outside generateAltText, so a call
\* starts with what the call before it left in them
ReaderLoadEndSharedRetryState(c) ==
    /\ call[c].pc = "reading"
    /\ LET url == DataURL(call[c].file)
           r1 == StartCall(call[c], Base64Of(url), call[c].file.type)
           r2 == IF c > 1 /\ call[c - 1].pc = "done"
                 THEN [r1 EXCEPT !.delay = call[c - 1].delay]
                 ELSE r1
       IN  /\ image' = url
           /\ isLoading' = TRUE
           /\ message' = MsgAnalyzing
           /\ call' = [call EXCEPT ![c] = r2]
    /\ UNCHANGED <<altText, nUploads>>

\* reader.onloadend after a successful read: setImage, then generateAltText
\* runs up to its first await (the first fetch).
ReaderLoadEnd(c) ==
    /\ call[c].pc = "reading"
    /\ LET url == DataURL(call[c].file)
           r2 == StartCall(call[c], Base64Of(url), call[c].file.type)
       IN  /\ image' = url
           /\ isLoading' = TRUE
           /\ message' = MsgAnalyzing
           /\ call' = [call EXCEPT ![c] = r2]
    /\ UNCHANGED <<altText, nUploads>>

\* reader.onerror (the loadend that follows finds reader.result null and
\* throws before it changes anything).
ReaderError(c) ==
    /\ call[c].pc = "reading"
    /\ message' = MsgReadError
    /\ call' = [call EXCEPT ![c] = [@ EXCEPT !.pc = "readFailed"]]
    /\ UNCHANGED <<image, altText, isLoading, nUploads>>

\* The ways an attempt ends: rate-limited, another non-success status, a
\* transport error, or a success status.
Kind429 == "429"
KindStatus == "status"
KindError == "error"
KindOk == "ok"
FailureKinds == {Kind429, KindStatus, KindError}
KindOf(status) ==
    IF status = 429 THEN Kind429 ELSE IF Ok(status) THEN KindOk ELSE KindStatus

\* History: the attempt of r ended the way k.
Observed(r, k) ==
    IF k \in FailureKinds
    THEN [r EXCEPT !.nFail = @ + 1, !.kinds = @ \cup {k}]
    ELSE r

\* The awaited fetch resolves with an HTTP response.
FetchResolves(c, status) ==
    /\ call[c].pc = "fetching"
    /\ call[c].inflight > 0
    /\ Continue(c, OnResponse(Observed(call[c], KindOf(status)), status))

\* The awaited fetch rejects.
FetchRejects(c) ==
    /\ call[c].pc = "fetching"
    /\ call[c].inflight > 0
    /\ Continue(c, OnReject(Observed(call[c], KindError)))

\* The backoff timer fires.
TimerFires(c) ==
    /\ call[c].pc \in {"backoff429", "backoffErr"}
    /\ call[c].timers > 0
    /\ LET r1 == [call[c] EXCEPT !.timers = @ - 1]
       IN  Continue(c, IF r1.pc = "backoff429" THEN AfterBackoff429(r1)
                       ELSE AfterBackoffErr(r1))

\* The awaited response.json() resolves.
JsonResolves(c, b) ==
    /\ call[c].pc = "parsing"
    /\ Continue(c, OnJson(call[c], b))

\* The awaited response.json() rejects.
JsonRejects(c) ==
    /\ call[c].pc = "parsing"
    /\ Continue(c, OnJsonReject(call[c]))

\* handleReset: the Reset button is rendered when (image || altText).
HandleReset ==
    /\ image # NoImage \/ altText # ""
    /\ image' = NoImage
    /\ altText' = ""
    /\ message' = ""
    /\ isLoading' = FALSE
    /\ UNCHANGED <<nUploads, call>>

\* copyToClipboard: its button is rendered when (altText && !isLoading).
CopyToClipboard ==
    /\ altText # "" /\ ~isLoading
    /\ message' = MsgCopied
    /\ UNCHANGED <<image, altText, isLoading, nUploads, call>>

\* The pending asynchronous operation of call c settles: the file read ends,
\* the fetch resolves or rejects, the timer fires, json() resolves or rejects.
Settle(c) ==
    \/ ReaderLoadEnd(c)
    \/ ReaderError(c)
    \/ \E s \in Statuses : FetchResolves(c, s)
    \/ FetchRejects(c)
    \/ TimerFires(c)
    \/ \E b \in Bodies : JsonResolves(c, b)
    \/ JsonRejects(c)

\* One upload: a single generateAltText call, with the user's invalid drops,
\* resets and copies around it.
Next ==
    \/ \E f \in Files : nUploads = 0 /\ HandleDrop(f)
    \/ \E f \in Files : nUploads = 0 /\ HandleFileChange(f)
    \/ Settle(1)
    \/ HandleReset
    \/ CopyToClipboard

Spec == Init /\ [][Next]_vars

\* The same under the assumption that every file read and network call
\* eventually completes and every timer eventually fires.
FairSpec == Spec /\ WF_vars(Settle(1))

\* Up to MaxUploads uploads, at any time: the calls they start overlap.
UINext ==
    \/ \E f \in Files : HandleDrop(f)
    \/ \E f \in Files : HandleFileChange(f)
    \/ \E c \in CallIds : Settle(c)
    \/ HandleReset
    \/ CopyToClipboard

UISpec == Init /\ [][UINext]_vars

\* Two uploads, at any time, and nothing else from the user: two
\* generateAltText calls, one after the other or overlapping.
TwinNext ==
    \/ \E f \in Files : nUploads < 2 /\ HandleFileChange(f)
    \/ Settle(1)
    \/ Settle(2)

TwinSpec == Init /\ [][TwinNext]_vars

----------------------------------------------------------------------------
(* Vocabulary of the properties *)

\* The call has been started and has not reached its terminal outcome.
InFlight(c) == call[c].pc \in {"fetching", "backoff429", "backoffErr", "parsing"}
Done(c) == call[c].pc = "done"

\* The terminal outcome a finished call has surfaced.
Outcome(r) ==
    LET m == r.msgs[Len(r.msgs)]
    IN  IF m = MsgSuccess THEN "Success"
        ELSE IF m = MsgNoDescription THEN "NoDescriptionProduced"
        ELSE "Failure"

RECURSIVE Pow2(_)
Pow2(n) == IF n <= 0 THEN 1 ELSE 2 * Pow2(n - 1)

\* 1000, 2000, 4000, ...: n waits
BackoffWaits(n) == [i \in 1..n |-> 1000 * Pow2(i - 1)]

\* json() resolved for r and carried a non-empty description.
Described(r) == r.body # Null /\ Truthy(r.body)

\* Every failed attempt of r so far was a 429 / none was a 429.
Only429(r) == r.kinds \subseteq {Kind429}
No429(r) == r.kinds \subseteq {KindStatus, KindError}

----------------------------------------------------------------------------
\* C1: for every k in 0..4, when the endpoint answers k consecutive 429
\* responses and then a success response carrying a non-empty description,
\* the call, once json() has settled, has ended with that description as the
\* alt text and the success message, has issued exactly k+1 network calls
\* and has waited 1000, 2000, 4000, ... ms (k waits) between them; and under
\* FairSpec a call that has received the success response always ends.
C1_Safety ==
    \A c \in CallIds :
        LET r == call[c]
        IN  (r.pc = "done" /\ Only429(r) /\ r.nFail \in 0..4
                /\ Ok(r.response) /\ Described(r))
            => /\ Outcome(r) = "Success"
               /\ r.altSet = r.body
               /\ r.ncalls = r.nFail + 1
               /\ r.waits = BackoffWaits(r.nFail)

C1_RateLimitedThenSuccess ==
    /\ []C1_Safety
    /\ \A c \in CallIds :
           (call[c].pc = "parsing" /\ Only429(call[c]) /\ Ok(call[c].response))
               ~> Done(c)

\* C1 witness: four 429 responses, then a success with a description.
C1_Witness ==
    \E c \in CallIds :
        /\ Done(c) /\ call[c].kinds = {Kind429} /\ call[c].nFail = 4
        /\ Ok(call[c].response) /\ Described(call[c])
        /\ call[c].ncalls = 5

\* C2 (as claimed): after exactly 5 consecutive 429 responses the call ends
\* with the RetriesExhausted failure, having issued exactly 5 network calls.
C2_ExhaustedBy429 ==
    \A c \in CallIds :
        LET r == call[c]
        IN  (r.pc = "done" /\ r.kinds = {Kind429} /\ r.nFail = 5)
            => /\ Outcome(r) = "Failure"
               /\ r.error = ErrNoResponse
               /\ r.ncalls = 5

\* C3: 429s, other non-success statuses and transport errors draw on one
\* attempt counter and one delay: whatever the mix, a call issues at most 5
\* network calls, the number of calls issued is the number of failed
\* attempts plus the one in flight, and the wait before the n-th call
\* (n >= 2) is 1000 * 2^(n-2) ms.
C3_SharedBudget ==
    \A c \in CallIds :
        LET r == call[c]
        IN  /\ r.ncalls <= 5
            /\ r.ncalls = r.nFail + r.inflight
                            + (IF r.response # NoResponse /\ Ok(r.response) THEN 1 ELSE 0)
            /\ r.pc = "fetching" => r.retries = r.nFail
            /\ \A n \in 2..r.ncalls : r.waits[n - 1] = 1000 * Pow2(n - 2)

\* C3 witness: a call that met all three kinds of failure and is at its
\* fifth network call.
C3_Witness ==
    \E c \in CallIds :
        /\ call[c].kinds = FailureKinds
        /\ call[c].pc = "fetching"
        /\ call[c].ncalls = 5

\* The call has been started (generateAltText has run to its first await).
Started(c) == InFlight(c) \/ Done(c)

\* C4 (as claimed): the attempt counter stays within 0..5 and, whenever a
\* network call or json() is pending or the call has ended, the delay after f
\* failed attempts is 1000 * 2^f ms.
C4_DelayDoublesPerFailure ==
    \A c \in CallIds :
        LET r == call[c]
        IN  /\ r.retries \in 0..5
            /\ r.pc \in {"fetching", "parsing", "done"}
                  => r.delay = 1000 * Pow2(r.nFail)

\* C4 (amended): the attempt counter stays within 0..5; the delay starts at
\* 1000 ms and doubles after each completed backoff wait, so that whenever a
\* network call or json() is pending after f failed attempts it is
\* 1000 * 2^f ms; a call ended by a fifth failure that was not a 429 has made
\* only four waits and ends with the delay at 1000 * 2^4 ms.
C4_DelayDoublesPerWait ==
    \A c \in CallIds :
        LET r == call[c]
        IN  /\ r.retries \in 0..5
            /\ Started(c) => r.delay = 1000 * Pow2(Len(r.waits) - r.timers)
            /\ r.pc \in {"fetching", "parsing"} => r.delay = 1000 * Pow2(r.nFail)
            /\ r.pc = "done" =>
                  \/ r.delay = 1000 * Pow2(r.nFail)
                  \/ /\ r.error \in {ErrApi, ErrTransport}
                     /\ r.nFail = 5 /\ r.retries = 5
                     /\ r.delay = 1000 * Pow2(4)

\* C4 witness: a call ended by its fifth failure, a non-429 one.
C4_Witness ==
    \E c \in CallIds :
        /\ Done(c) /\ call[c].nFail = 5
        /\ call[c].error \in {ErrApi, ErrTransport}
        /\ call[c].delay = 16000

\* C5: a non-success status other than 429 and a transport error are handled
\* alike.  Each adds one to the attempt counter and issues no call by itself;
\* below 5 the current delay is waited, then doubled, then the next call is
\* issued; at 5 the failure ends the call with the error message, without a
\* wait.  The two differ in nothing but the error and the response held.  Five
\* such failures in a row give 5 calls, waits 1000, 2000, 4000, 8000 and the
\* failure outcome.
C5_FailureStep(c) ==
    LET r == call[c]
        r2 == call'[c]
    IN  /\ (r.pc = "fetching" /\ r2.pc \in {"backoffErr", "done"})
              => /\ r2.retries = r.retries + 1
                 /\ r2.ncalls = r.ncalls
                 /\ r2.delay = r.delay
                 /\ IF r2.retries < 5
                    THEN /\ r2.pc = "backoffErr"
                         /\ r2.waits = Append(r.waits, r.delay)
                    ELSE /\ r2.pc = "done"
                         /\ Outcome(r2) = "Failure"
                         /\ r2.error \in {ErrApi, ErrTransport}
                         /\ r2.waits = r.waits
                         /\ message' = MsgError
        /\ (r.pc = "backoffErr" /\ r2.pc # "backoffErr")
              => /\ r2.pc = "fetching"
                 /\ r2.delay = 2 * r.delay
                 /\ r2.retries = r.retries
                 /\ r2.ncalls = r.ncalls + 1

C5_SameHandling ==
    \A c \in CallIds :
        call[c].pc = "fetching" =>
            LET Same(r) == [r EXCEPT !.response = NoResponse, !.error = Null, !.kinds = {}]
            IN  \A s \in {x \in Statuses : x # 429 /\ ~Ok(x)} :
                    Same(OnResponse(Observed(call[c], KindOf(s)), s))
                        = Same(OnReject(Observed(call[c], KindError)))

C5_FiveFailures ==
    \A c \in CallIds :
        LET r == call[c]
        IN  (r.pc = "done" /\ No429(r) /\ r.nFail = 5)
            => /\ r.ncalls = 5
               /\ r.waits = <<1000, 2000, 4000, 8000>>
               /\ Outcome(r) = "Failure"
               /\ r.error \in {ErrApi, ErrTransport}

C5_StatusAndTransportAlike ==
    /\ [][\A c \in CallIds : C5_FailureStep(c)]_vars
    /\ [](C5_SameHandling /\ C5_FiveFailures)

\* C5 witness: five failures in a row, of both kinds and none a 429.
C5_Witness ==
    \E c \in CallIds :
        /\ Done(c) /\ call[c].nFail = 5
        /\ call[c].kinds = {KindStatus, KindError}

\* C6: when the first network call answers a success status and the
\* description is empty or missing, the call ends with "no description
\* produced" after exactly 1 network call and no wait, and the alt text stays
\* unset.
C6_NoDescriptionNoRetry ==
    \A c \in CallIds :
        LET r == call[c]
        IN  (r.pc = "done" /\ r.nFail = 0 /\ Ok(r.response)
                /\ r.body \in {"", Missing})
            => /\ Outcome(r) = "NoDescriptionProduced"
               /\ r.ncalls = 1
               /\ r.waits = << >>
               /\ r.altSet = Null
               /\ altText = ""

\* C6 witness: a first response with success status and an empty description.
C6_Witness ==
    \E c \in CallIds :
        /\ Done(c) /\ call[c].nFail = 0 /\ Ok(call[c].response)
        /\ call[c].body = ""
        /\ message = MsgNoDescription

\* C7 (as claimed): whatever the drops, file selections and resets, at most
\* one generateAltText call is in flight at any time.
C7_NoOverlappingCalls ==
    Cardinality({c \in CallIds : InFlight(c)}) <= 1

\* C8: within one call the attempts are strictly sequential: at no time does
\* the call have two network calls pending, or a network call pending while
\* a backoff wait of its own is still running, and a pending network call is
\* the only attempt whose outcome is not yet known.
C8_SequentialAttempts ==
    \A c \in CallIds :
        LET r == call[c]
        IN  /\ r.inflight + r.timers <= 1
            /\ r.inflight = 1 <=> r.pc = "fetching"
            /\ r.timers = 1 <=> r.pc \in {"backoff429", "backoffErr"}
            /\ r.pc = "fetching" =>
                  /\ r.ncalls = r.nFail + 1
                  /\ Len(r.waits) = r.nFail

\* C8 witness: a retry is pending after a rate-limited and a failed attempt.
C8_Witness ==
    \E c \in CallIds :
        /\ call[c].pc = "fetching" /\ call[c].inflight = 1
        /\ call[c].ncalls = 3
        /\ call[c].kinds = {Kind429, KindError}

\* C9: after a transport error on the first network call the call waits
\* 1000 ms and issues a second one; when that one answers a success carrying
\* a non-empty description, the call ends with that description as the alt
\* text after exactly 2 network calls.
C9_ErrorThenSuccess ==
    \A c \in CallIds :
        LET r == call[c]
        IN  (r.nFail = 1 /\ r.kinds = {KindError}) =>
                /\ r.waits = <<1000>>
                /\ r.pc \in {"backoffErr", "fetching", "parsing", "done"}
                /\ r.pc = "backoffErr" => r.ncalls = 1
                /\ r.pc \in {"fetching", "parsing", "done"} => r.ncalls = 2
                /\ r.pc \in {"parsing", "done"} => Ok(r.response)
                /\ (r.pc = "done" /\ Described(r)) =>
                      /\ Outcome(r) = "Success"
                      /\ r.altSet = r.body

\* C9 witness: a transport error, then a success with a description.
C9_Witness ==
    \E c \in CallIds :
        /\ Done(c) /\ call[c].nFail = 1 /\ call[c].kinds = {KindError}
        /\ Described(call[c])
        /\ call[c].ncalls = 2
        /\ altText = call[c].body

\* C10: a call surfaces exactly one terminal outcome.  While it is in flight,
\* however many attempts have failed, it has set no message but the initial
\* "Analyzing image..." and the message shown is that or empty; once ended it
\* has set exactly one terminal message, and it never sets anything again.
C10_InFlightSilent ==
    \A c \in CallIds :
        LET r == call[c]
        IN  /\ InFlight(c) => /\ r.msgs = <<MsgAnalyzing>>
                              /\ r.altSet = Null /\ r.error = Null
                              /\ message \in {MsgAnalyzing, ""}
            /\ Done(c) => /\ Len(r.msgs) = 2
                          /\ r.msgs[1] = MsgAnalyzing
                          /\ r.msgs[2] \in {MsgSuccess, MsgNoDescription, MsgError}
                          /\ r.msgs[2] = MsgSuccess <=> r.altSet # Null
                          /\ r.msgs[2] = MsgError <=> r.error # Null

C10_OneTerminalOutcome ==
    /\ []C10_InFlightSilent
    /\ [][\A c \in CallIds : Done(c) => call'[c] = call[c]]_vars

\* C10 witness: a call ended by its fifth failed attempt.
C10_Witness ==
    \E c \in CallIds :
        /\ Done(c) /\ call[c].nFail = 5 /\ call[c].ncalls = 5
        /\ call[c].msgs = <<MsgAnalyzing, MsgError>>
        /\ message = MsgError

\* C11: every call terminates.  Under FairSpec (every file read and network
\* call completes, every timer fires) a call that is in flight always reaches
\* its terminal outcome, whatever the endpoint answers, and the step that
\* ends it, on the success, the no-description and the failure path alike,
\* leaves isLoading false.
C11_TerminatesAndClearsLoading ==
    /\ \A c \in CallIds : InFlight(c) ~> Done(c)
    /\ [][\A c \in CallIds : (InFlight(c) /\ Done(c)') => isLoading' = FALSE]_vars

\* C11 witness: a call ended on the failure path after five attempts, with
\* isLoading cleared.
C11_Witness ==
    \E c \in CallIds :
        /\ Done(c) /\ call[c].error = ErrTransport /\ call[c].ncalls = 5
        /\ message = MsgError
        /\ ~isLoading

\* What the endpoint did to a finished call, as far as the call records it:
\* how many attempts failed and in which ways, the last response received,
\* what json() yielded, and the error that ended the call if one did (which
\* tells a rejected json() and the kind of a failing last attempt).
Answers(r) == <<r.nFail, r.kinds, r.response, r.body, r.error>>

\* What a finished call has done.
Conduct(r) == <<Outcome(r), r.altSet, r.ncalls, r.waits, r.retries, r.delay>>

\* C12: determinism.  Two finished calls of one run that were given the same
\* payload and the same answers by the endpoint have the same outcome, the
\* same number of network calls and the same sequence of backoff waits; and
\* every call issues its first network call with a fresh attempt counter
\* (0), a fresh delay (1000 ms) and no response, whatever an earlier call
\* has left behind.
C12_Deterministic ==
    /\ \A c1, c2 \in CallIds :
           (/\ Done(c1) /\ Done(c2)
            /\ call[c1].sent = call[c2].sent
            /\ Answers(call[c1]) = Answers(call[c2]))
           => Conduct(call[c1]) = Conduct(call[c2])
    /\ \A c \in CallIds :
           (call[c].pc = "fetching" /\ call[c].ncalls = 1)
           => /\ call[c].retries = 0
              /\ call[c].delay = 1000
              /\ call[c].response = NoResponse
              /\ call[c].waits = << >>

\* C12 witness: two finished calls with the same payload and the same
\* answers, each after two failed attempts.
C12_Witness ==
    /\ Done(1) /\ Done(2)
    /\ call[1].sent = call[2].sent
    /\ Answers(call[1]) = Answers(call[2])
    /\ call[1].nFail = 2 /\ call[1].kinds = {Kind429, KindError}
    /\ Described(call[1])

\* C13: generateAltText validates nothing locally.  When the file read ends,
\* the same step sets isLoading and issues the first network call; every
\* network call carries the file's base64 data and MIME type as they are,
\* the empty data of an empty file included; and no call reaches its terminal
\* outcome without having issued a network call.
C13_PayloadSent ==
    \A c \in CallIds :
        Started(c) =>
            /\ call[c].ncalls >= 1
            /\ call[c].sent = [mimeType |-> call[c].file.type,
                               data |-> call[c].file.data]

C13_NoLocalValidation ==
    /\ []C13_PayloadSent
    /\ [][\A c \in CallIds :
             (call[c].pc = "reading" /\ call'[c].pc # "reading"
                 /\ call'[c].pc # "readFailed")
             => /\ call'[c].pc = "fetching"
                /\ call'[c].ncalls = 1
                /\ call'[c].inflight = 1
                /\ isLoading']_vars

\* C13 witness: the first network call of an upload of the empty file.
C13_Witness ==
    \E c \in CallIds :
        /\ call[c].pc = "fetching" /\ call[c].ncalls = 1
        /\ call[c].file.data = ""
        /\ call[c].sent = [mimeType |-> "text/plain", data |-> ""]
        /\ isLoading

\* C14 (as claimed): no backoff wait follows the last network call of a
\* call: a finished call has made one wait fewer than network calls.
C14_NoWaitAfterLastCall ==
    \A c \in CallIds :
        Done(c) => Len(call[c].waits) = call[c].ncalls - 1

\* C15 (as claimed): isLoading is true whenever some generateAltText call is
\* in flight.
C15_LoadingWhileInFlight ==
    (\E c \in CallIds : InFlight(c)) => isLoading

\* C16: whenever the retry loop has been left without throwing (json() is
\* awaited, or the call has ended other than by an error thrown in the loop)
\* response holds a response object, and no call ever raises 'Failed to
\* fetch from API after multiple retries.'
C16_ResponseHeldAfterLoop ==
    \A c \in CallIds :
        LET r == call[c]
        IN  /\ (r.pc = "parsing" \/ (r.pc = "done" /\ r.error \in {Null, ErrJson}))
                  => r.response # NoResponse
            /\ r.error # ErrNoResponse

\* C16 witness: the loop left by its own test after five 429 responses, with
\* the last of them held in response.
C16_Witness ==
    \E c \in CallIds :
        /\ call[c].pc = "parsing" /\ call[c].retries = 5
        /\ call[c].ncalls = 5
        /\ call[c].response = 429

\* C17 (as claimed): an alt text displayed with an image preview was set by a
\* call made for the displayed image.
C17_AltTextOfShownImage ==
    (altText # "" /\ ~isLoading /\ image # NoImage)
        => \E c \in CallIds :
               /\ Done(c) /\ call[c].altSet = altText
               /\ image = DataURL(call[c].file)

\* The state handleReset leaves.
Cleared ==
    image = NoImage /\ altText = "" /\ message = "" /\ isLoading = FALSE

\* C18 (as claimed): a generateAltText call that is in flight while the
\* application is in the cleared state handleReset has left writes nothing:
\* its steps leave the state cleared.
C18_ResetStaysCleared ==
    [][(Cleared /\ \E c \in CallIds : InFlight(c) /\ call'[c] # call[c])
          => Cleared']_vars

====
